---------------------------- MODULE Spec2Model ----------------------------
(***************************************************************************)
(* Model of genz27/SoraSolver: the browser pool (BrowserPool), the result  *)
(* cache (SolutionCache), the solver (CloudflareSolver.solve and           *)
(* _check_clearance) of src/cloudflare_solver.py, and the challenge        *)
(* endpoint (solve_challenge) of src/server.py.                            *)
(*                                                                         *)
(* The pool's lock is threading.Lock(), which is not reentrant, and the    *)
(* pool's condition variable is built on that same lock (lines 139-140).   *)
(* BrowserPool.acquire calls _async_replenish (lines 236, 242) while it is *)
(* inside `with self._condition`, and _async_replenish starts with         *)
(* `with self._lock` (line 216): the calling thread waits for a lock it    *)
(* holds itself.  The model keeps the lock's owner, so that wait is a      *)
(* guard that never becomes true; lines 245-273 of acquire (the wait loop  *)
(* and the synchronous fallback) and everything in solve that follows a    *)
(* return of pool.acquire are therefore not reachable and have no action.  *)
(***************************************************************************)
EXTENDS Integers, Sequences, FiniteSets, TLC

(* ------------------------------ constants ------------------------------ *)

\* server.py: the executor's threads, the pool's size, the admission limit
MAX_WORKERS == 3
POOL_SIZE == 2
SEMAPHORE_LIMIT == 3
\* cloudflare_solver.py: SolutionCache's defaults, _check_clearance's wait_time
CACHE_MAX_SIZE == 50
CACHE_TTL == 1800
WAIT_TIME == 8
\* CloudflareSolver.__init__'s timeout; the least timeout /v1/challenge accepts
TIMEOUT_DEFAULT == 60
TIMEOUT_MIN == 10

(* -------------------------------- bounds ------------------------------- *)

\* handles the session engine creates in one run
MaxHandles == 3
\* engine calls (create, navigate, read) that fail in one run
MaxFail == 1
\* threads that call the pool's methods directly
NumClients == 2
\* largest count passed to warmup
MaxWarm == 2
\* threads that call CloudflareSolver.solve directly, and calls of solve in one run
NumSolvers == 1
MaxSolves == 2
\* requests sent to /v1/challenge in one run, how many of them are cancelled
\* and how many (the first ones) may set skip_cache
NumRequests == 4
MaxCancel == 1
MaxSkip == 1
\* largest max_retries passed to solve
MaxRetries == 1
\* seconds one poll tick of _check_clearance takes (its reads and its sleep)
PollStep == 4
\* the wall clock advances in steps of ClockStep seconds, MaxClock times
ClockStep == 900
MaxClock == 3
\* calls on the cache in one run, its max_size, and the tokens passed to set
MaxCacheOps == 4
CacheCap == 2
MaxTokens == 1

Threads == 1..MAX_WORKERS
Repl == (MAX_WORKERS + 1)..(MAX_WORKERS + POOL_SIZE)
Procs == Threads \cup Repl
NoOwner == 0
NoPage == 0
\* channels: None (direct) or a proxy address
Direct == "direct"
Channels == {Direct, "p1"}

VARIABLES
    \* BrowserPool
    available,      \* self._available: handle ids, front first
    creating,       \* self._creating
    shutdownFlag,   \* self._shutdown
    poolStats,      \* self._stats
    poolLock,       \* owner of self._lock (self._condition uses the same lock)
    \* the session engine
    handles,        \* handles created so far: id -> [chan, quits, by, outs,
                    \* cleared]; by is who created it, outs counts how often
                    \* acquire handed it out, cleared is set when a waiter saw
                    \* the cf_clearance cookie on it
    engineFails,    \* failed engine calls so far
    \* threads: clients / executor workers (Threads), replenishment threads (Repl)
    pc,
    page,           \* the local `page` of each thread
    wcount, wi,     \* warmup's count and loop index
    wlog,           \* per call of warmup: its argument, len(available) when
                    \* it was called, and how many pages it has created
                    \* and added so far
    \* SolutionCache (the global instance of get_cache())
    cache,          \* self._cache: <<key, solution>> pairs, least recently used first
    cacheStats,     \* self._stats
    now,            \* the wall clock, in seconds
    op,             \* the last call a direct caller made on a SolutionCache:
                    \* its arguments, what it returned, the cache and the
                    \* counters before it, the call before it, and the keys in
                    \* the order of their last use
    ck,             \* a call of _check_clearance on its own: what the page
                    \* shows at each tick, the tick, the time polled, the
                    \* waiter's state and what it returns
    \* CloudflareSolver.solve
    poolExists,     \* _browser_pool is not None
    sv,             \* per thread: solve's arguments and locals
    solves,         \* calls of solve so far
    \* server.py
    rq,             \* per request of /v1/challenge: its arguments and position
    sem,            \* request_semaphore's value
    stats,          \* the endpoint's counters
    jobs,           \* the executor's queue: requests whose solve has not started
    wreq,           \* per executor thread: the request whose solve it runs
    lastResp        \* the response sent last

poolVars == <<available, creating, shutdownFlag, poolStats, poolLock>>
engVars == <<handles, engineFails>>
wuVars == <<wcount, wi, wlog>>
\* what the pool's methods never touch
nonPool == <<cache, cacheStats, now, op, ck, poolExists, sv, solves, rq, sem, stats, jobs,
             wreq, lastResp>>
cacheVars == <<cache, cacheStats>>
solveVars == <<poolExists, sv, solves>>
vars == <<available, creating, shutdownFlag, poolStats, poolLock,
          handles, engineFails, pc, page, wcount, wi, wlog,
          cache, cacheStats, now, op, ck, poolExists, sv, solves,
          rq, sem, stats, jobs, wreq, lastResp>>
srvVars == <<rq, sem, stats, jobs, wreq, lastResp>>

(* ------------------------------ the engine ----------------------------- *)

Range(s) == {s[i] : i \in 1..Len(s)}

\* ChromiumPage(options): a new open handle on channel c, created by `who`
NewHandle(c, who) == [chan |-> c, quits |-> 0, by |-> who, outs |-> 0,
                      cleared |-> FALSE]
CanCreate == Len(handles) < MaxHandles
CanFail == engineFails < MaxFail
NextId == Len(handles) + 1
IsOpen(h) == handles[h].quits = 0

\* page.quit() on every handle of the set S
QuitAll(hs, S) == [h \in 1..Len(hs) |->
                     IF h \in S THEN [hs[h] EXCEPT !.quits = @ + 1] ELSE hs[h]]

\* solve's arguments and locals before any call
\* a target: "https://host/path" (scheme) or "host/path" (no scheme)
NoUrl == [scheme |-> FALSE, host |-> "", path |-> ""]
Urls == {[scheme |-> TRUE, host |-> "a", path |-> "/x"]}
\* proxy: None ("none") or an address
Proxies == {"none", "p1"}
\* the channel a page is created on: _create_page, `if proxy:`
ChanOf(proxy) == IF proxy = "none" THEN Direct ELSE proxy

\* the value of the cf_clearance cookie of session h is written h; None is 0
NoToken == 0
\* CloudflareSolution(cf_clearance, url, created_at); None
NoSol == [cf |-> NoToken, url |-> NoUrl, created |-> 0]

\* no call on the cache yet
NoPrev == [name |-> "none", url |-> NoUrl, proxy |-> "none", arg |-> NoSol, at |-> 0]
NoOp == [n |-> 0, name |-> "none", url |-> NoUrl, proxy |-> "none",
         arg |-> NoSol, ret |-> NoSol, at |-> 0, pre |-> <<>>,
         preStats |-> [hits |-> 0, misses |-> 0], preUsed |-> <<>>,
         used |-> <<>>, prev |-> NoPrev]

\* solve's arguments and locals before any call; acq, fails, fromCache and
\* wrote record what the call did
NoCall == [url |-> NoUrl, proxy |-> "none", skip |-> FALSE, retries |-> 0,
           useCache |-> FALSE, usePool |-> FALSE, attempt |-> 0,
           lastError |-> "none", acq |-> 0, fails |-> <<>>, elapsed |-> 0,
           cf |-> NoToken, out |-> "none", result |-> NoSol, err |-> "none",
           fromCache |-> FALSE, wrote |-> FALSE, timeout |-> TIMEOUT_DEFAULT,
           waiter |-> "none"]

Requests == 1..NumRequests
\* a request before it arrives; st is its position in solve_challenge, asked
\* tells whether the endpoint has asked the cache for it (line 316); of an
\* answered request only its skip_cache is kept
NoRequest == [st |-> "new", url |-> NoUrl, proxy |-> "none", skip |-> FALSE,
              asked |-> FALSE]
\* no response sent yet; req is the request answered, sol the solution whose
\* fields fill the ChallengeResponse, fromCache its from_cache, skip the
\* request's skip_cache, solveHit whether solve took the solution from the cache
NoResp == [req |-> 0, success |-> FALSE, sol |-> NoSol, fromCache |-> FALSE,
           skip |-> FALSE, solveHit |-> FALSE]

\* _check_clearance not called
NoCheck == [os |-> <<>>, h |-> NoPage, i |-> 0, elapsed |-> 0, state |-> "none",
            token |-> NoToken]

\* warmup not called yet
NoWarmup == [n |-> 0, before |-> 0, made |-> 0, added |-> 0]

(* --------------------------- BrowserPool --------------------------------*)

TypeOK ==
    /\ available \in Seq(1..MaxHandles)
    /\ creating \in Int
    /\ shutdownFlag \in BOOLEAN
    /\ poolLock \in Procs \cup {NoOwner}
    /\ pc \in [Procs -> STRING]
    /\ page \in [Procs -> 0..MaxHandles]

InitPool ==
    /\ available = <<>>
    /\ creating = 0
    /\ shutdownFlag = FALSE
    /\ poolStats = [created |-> 0, reused |-> 0, failed |-> 0, waiting |-> 0]
    /\ poolLock = NoOwner
    /\ handles = <<>>
    /\ engineFails = 0
    /\ pc = [p \in Procs |-> "idle"]
    /\ page = [p \in Procs |-> NoPage]
    /\ wcount = [p \in Threads |-> 0]
    /\ wi = [p \in Threads |-> 0]
    /\ wlog = [p \in Threads |-> NoWarmup]
    /\ cache = <<>>
    /\ cacheStats = [hits |-> 0, misses |-> 0]
    /\ now = 0
    /\ op = NoOp
    /\ ck = NoCheck
    /\ poolExists = TRUE
    /\ sv = [p \in Threads |-> NoCall]
    /\ solves = 0
    /\ rq = [r \in Requests |-> NoRequest]
    /\ sem = SEMAPHORE_LIMIT
    /\ stats = [total_requests |-> 0, success |-> 0, failed |-> 0,
                cache_hits |-> 0, queue_waiting |-> 0, processing |-> 0]
    /\ jobs = <<>>
    /\ wreq = [t \in Threads |-> 0]
    /\ lastResp = NoResp

\* (mutant) the front handle is read and left in the list
PopRest_Keep(s) == s

\* self._available.pop(0): what is left in the list
PopRest(s) == Tail(s)

\* the test of _async_replenish: nothing to do when the pool is full
ReplenishNotNeeded == Len(available) + creating >= POOL_SIZE

\* where a caller of _async_replenish continues
AfterReplenish(l) == IF l = "dc_ar" THEN "idle" ELSE "acq_after_ar"

\* _async_replenish, called by p: `with self._lock` waits until the lock is
\* free (for ever when p itself holds it); then the test, the count and the
\* start of the thread that runs _replenish_one
AsyncReplenish(p) ==
    /\ pc[p] \in {"dc_ar", "acq_ar"}
    /\ poolLock = NoOwner
    /\ IF ReplenishNotNeeded
         THEN /\ pc' = [pc EXCEPT ![p] = AfterReplenish(pc[p])]
              /\ UNCHANGED creating
         ELSE \E r \in Repl :
                /\ pc[r] = "idle"
                /\ \A q \in Repl : q < r => pc[q] # "idle"
                /\ creating' = creating + 1
                /\ pc' = [pc EXCEPT ![p] = AfterReplenish(pc[p]),
                                    ![r] = "rep_start"]
    /\ page' = [page EXCEPT ![p] = IF pc[p] = "dc_ar" THEN NoPage ELSE @]
    /\ UNCHANGED <<available, shutdownFlag, poolStats, poolLock, engVars, wuVars>>
    /\ UNCHANGED nonPool

\* _replenish_one, line 194: the flag is read without the lock
ReplStart(r) ==
    /\ pc[r] = "rep_start"
    /\ pc' = [pc EXCEPT ![r] = IF shutdownFlag THEN "idle" ELSE "rep_create"]
    /\ UNCHANGED <<poolVars, engVars, page, wuVars>>
    /\ UNCHANGED nonPool

\* lines 197-198: _create_page() and page.get("about:blank"); either may raise
ReplCreate(r) ==
    /\ pc[r] = "rep_create"
    /\ \/ /\ CanCreate
          /\ handles' = Append(handles, NewHandle(Direct, "replenish"))
          /\ page' = [page EXCEPT ![r] = NextId]
          /\ pc' = [pc EXCEPT ![r] = "rep_lock"]
          /\ UNCHANGED engineFails
       \/ /\ CanFail
          /\ engineFails' = engineFails + 1
          /\ pc' = [pc EXCEPT ![r] = "rep_exc"]
          /\ UNCHANGED <<handles, page>>
       \/ /\ CanCreate /\ CanFail
          /\ handles' = Append(handles, NewHandle(Direct, "replenish"))
          /\ engineFails' = engineFails + 1
          /\ page' = [page EXCEPT ![r] = NextId]
          /\ pc' = [pc EXCEPT ![r] = "rep_exc"]
    /\ UNCHANGED <<poolVars, wuVars>>
    /\ UNCHANGED nonPool

\* the test of line 201
ReplMayAdd == Len(available) < POOL_SIZE /\ ~shutdownFlag

\* lines 199-207: under the lock, count down, then add the page or go on to
\* page.quit() with the lock still held
ReplAdd(r) ==
    /\ pc[r] = "rep_lock"
    /\ poolLock = NoOwner
    /\ creating' = creating - 1
    /\ IF ReplMayAdd
         THEN /\ available' = Append(available, page[r])
              /\ poolStats' = [poolStats EXCEPT !.created = @ + 1]
              /\ pc' = [pc EXCEPT ![r] = "idle"]
              /\ page' = [page EXCEPT ![r] = NoPage]
              /\ UNCHANGED poolLock
         ELSE /\ poolLock' = r
              /\ pc' = [pc EXCEPT ![r] = "rep_quit"]
              /\ UNCHANGED <<available, poolStats, page>>
    /\ UNCHANGED <<shutdownFlag, engVars, wuVars>>
    /\ UNCHANGED nonPool

\* line 207: page.quit(), then the lock is released
ReplQuit(r) ==
    /\ pc[r] = "rep_quit"
    /\ handles' = QuitAll(handles, {page[r]})
    /\ poolLock' = NoOwner
    /\ pc' = [pc EXCEPT ![r] = "idle"]
    /\ page' = [page EXCEPT ![r] = NoPage]
    /\ UNCHANGED <<available, creating, shutdownFlag, poolStats, engineFails, wuVars>>
    /\ UNCHANGED nonPool

\* lines 208-212: the creation raised
ReplFail(r) ==
    /\ pc[r] = "rep_exc"
    /\ poolLock = NoOwner
    /\ creating' = creating - 1
    /\ poolStats' = [poolStats EXCEPT !.failed = @ + 1]
    /\ pc' = [pc EXCEPT ![r] = "idle"]
    /\ page' = [page EXCEPT ![r] = NoPage]
    /\ UNCHANGED <<available, shutdownFlag, poolLock, engVars, wuVars>>
    /\ UNCHANGED nonPool

\* acquire, lines 228-242: take the lock; pop the front handle, or count the
\* caller as waiting; then call _async_replenish with the lock held
AcquireEnter(t) ==
    /\ pc[t] = "acq_lock"
    /\ poolLock = NoOwner
    /\ poolLock' = t
    /\ IF available # <<>>
         THEN /\ page' = [page EXCEPT ![t] = Head(available)]
              /\ available' = PopRest(available)
              /\ handles' = [handles EXCEPT ![Head(available)].outs = @ + 1]
              /\ poolStats' = [poolStats EXCEPT !.reused = @ + 1]
         ELSE /\ poolStats' = [poolStats EXCEPT !.waiting = @ + 1]
              /\ UNCHANGED <<available, page, handles>>
    /\ pc' = [pc EXCEPT ![t] = "acq_ar"]
    /\ UNCHANGED <<creating, shutdownFlag, engineFails, wuVars>>
    /\ UNCHANGED nonPool

\* discard, lines 277-281: page.quit(), errors swallowed; then _async_replenish
Discard(t) ==
    /\ pc[t] = "dc_quit"
    /\ handles' = QuitAll(handles, {page[t]})
    /\ pc' = [pc EXCEPT ![t] = "dc_ar"]
    /\ UNCHANGED <<poolVars, engineFails, page, wuVars>>
    /\ UNCHANGED nonPool

\* warmup, line 286
WarmupCount(n) == IF n = 0 THEN POOL_SIZE ELSE n

\* warmup, lines 289-292 and 300-302: the next creation of the batch
WarmupCreate(t) ==
    /\ pc[t] = "wu_loop"
    /\ IF wi[t] < wcount[t]
         THEN \/ /\ CanCreate
                 /\ handles' = Append(handles, NewHandle(Direct, "warmup"))
                 /\ page' = [page EXCEPT ![t] = NextId]
                 /\ pc' = [pc EXCEPT ![t] = "wu_lock"]
                 /\ wlog' = [wlog EXCEPT ![t].made = @ + 1]
                 /\ UNCHANGED <<engineFails, poolStats, wi>>
              \/ /\ CanFail
                 /\ engineFails' = engineFails + 1
                 /\ poolStats' = [poolStats EXCEPT !.failed = @ + 1]
                 /\ wi' = [wi EXCEPT ![t] = @ + 1]
                 /\ UNCHANGED <<handles, page, pc, wlog>>
              \/ /\ CanCreate /\ CanFail
                 /\ handles' = Append(handles, NewHandle(Direct, "warmup"))
                 /\ engineFails' = engineFails + 1
                 /\ poolStats' = [poolStats EXCEPT !.failed = @ + 1]
                 /\ wi' = [wi EXCEPT ![t] = @ + 1]
                 /\ wlog' = [wlog EXCEPT ![t].made = @ + 1]
                 /\ UNCHANGED <<page, pc>>
         ELSE /\ pc' = [pc EXCEPT ![t] = "idle"]
              /\ UNCHANGED <<engVars, poolStats, page, wi, wlog>>
    /\ UNCHANGED <<available, creating, shutdownFlag, poolLock, wcount>>
    /\ UNCHANGED nonPool

\* the test of line 294
WarmupMayAdd == Len(available) < POOL_SIZE

\* warmup, lines 293-299: under the lock, add the page or go on to page.quit()
WarmupAdd(t) ==
    /\ pc[t] = "wu_lock"
    /\ poolLock = NoOwner
    /\ IF WarmupMayAdd
         THEN /\ available' = Append(available, page[t])
              /\ poolStats' = [poolStats EXCEPT !.created = @ + 1]
              /\ pc' = [pc EXCEPT ![t] = "wu_loop"]
              /\ page' = [page EXCEPT ![t] = NoPage]
              /\ wi' = [wi EXCEPT ![t] = @ + 1]
              /\ wlog' = [wlog EXCEPT ![t].added = @ + 1]
              /\ UNCHANGED poolLock
         ELSE /\ poolLock' = t
              /\ pc' = [pc EXCEPT ![t] = "wu_quit"]
              /\ UNCHANGED <<available, poolStats, page, wi, wlog>>
    /\ UNCHANGED <<creating, shutdownFlag, engVars, wcount>>
    /\ UNCHANGED nonPool

\* warmup, line 299: page.quit(), then the lock is released
WarmupQuit(t) ==
    /\ pc[t] = "wu_quit"
    /\ handles' = QuitAll(handles, {page[t]})
    /\ poolLock' = NoOwner
    /\ pc' = [pc EXCEPT ![t] = "wu_loop"]
    /\ page' = [page EXCEPT ![t] = NoPage]
    /\ wi' = [wi EXCEPT ![t] = @ + 1]
    /\ UNCHANGED <<available, creating, shutdownFlag, poolStats, engineFails, wcount,
                   wlog>>
    /\ UNCHANGED nonPool

\* shutdown, lines 308-310: take the lock, set the flag, notify_all
ShutdownEnter(t) ==
    /\ pc[t] = "sd_lock"
    /\ poolLock = NoOwner
    /\ poolLock' = t
    /\ shutdownFlag' = TRUE
    /\ pc' = [pc EXCEPT ![t] = "sd_quit"]
    /\ UNCHANGED <<available, creating, poolStats, engVars, page, wuVars>>
    /\ UNCHANGED nonPool

\* shutdown, lines 311-316: quit every idle page, clear the list, release
ShutdownFinish(t) ==
    /\ pc[t] = "sd_quit"
    /\ handles' = QuitAll(handles, Range(available))
    /\ available' = <<>>
    /\ poolLock' = NoOwner
    /\ pc' = [pc EXCEPT ![t] = "idle"]
    /\ UNCHANGED <<creating, shutdownFlag, poolStats, engineFails, page, wuVars>>
    /\ UNCHANGED nonPool

(* callers of the pool's public methods *)

Clients == 1..NumClients

ClientAcquire(t) ==
    /\ pc[t] = "idle"
    /\ pc' = [pc EXCEPT ![t] = "acq_lock"]
    /\ UNCHANGED <<poolVars, engVars, page, wuVars>>
    /\ UNCHANGED nonPool

\* discard(page) on a handle the caller created outside the pool
ClientDiscard(t) ==
    /\ pc[t] = "idle"
    /\ CanCreate
    /\ handles' = Append(handles, NewHandle(Direct, "adhoc"))
    /\ page' = [page EXCEPT ![t] = NextId]
    /\ pc' = [pc EXCEPT ![t] = "dc_quit"]
    /\ UNCHANGED <<poolVars, engineFails, wuVars>>
    /\ UNCHANGED nonPool

ClientWarmup(t) ==
    /\ pc[t] = "idle"
    /\ \E n \in 0..MaxWarm :
         /\ wcount' = [wcount EXCEPT ![t] = WarmupCount(n)]
         /\ wi' = [wi EXCEPT ![t] = 0]
         /\ wlog' = [wlog EXCEPT ![t] = [NoWarmup EXCEPT !.n = n,
                                           !.before = Len(available)]]
    /\ pc' = [pc EXCEPT ![t] = "wu_loop"]
    /\ UNCHANGED <<poolVars, engVars, page>>
    /\ UNCHANGED nonPool

ClientShutdown(t) ==
    /\ pc[t] = "idle"
    /\ pc' = [pc EXCEPT ![t] = "sd_lock"]
    /\ UNCHANGED <<poolVars, engVars, page, wuVars>>
    /\ UNCHANGED nonPool

NextPool ==
    \/ \E t \in Clients : ClientAcquire(t)
    \/ \E t \in Clients : ClientDiscard(t)
    \/ \E t \in Clients : ClientWarmup(t)
    \/ \E t \in Clients : ClientShutdown(t)
    \/ \E t \in Clients : AcquireEnter(t)
    \/ \E t \in Clients : Discard(t)
    \/ \E t \in Clients : AsyncReplenish(t)
    \/ \E t \in Clients : WarmupCreate(t)
    \/ \E t \in Clients : WarmupAdd(t)
    \/ \E t \in Clients : WarmupQuit(t)
    \/ \E t \in Clients : ShutdownEnter(t)
    \/ \E t \in Clients : ShutdownFinish(t)
    \/ \E r \in Repl : ReplStart(r)
    \/ \E r \in Repl : ReplCreate(r)
    \/ \E r \in Repl : ReplAdd(r)
    \/ \E r \in Repl : ReplQuit(r)
    \/ \E r \in Repl : ReplFail(r)

SpecPool == InitPool /\ [][NextPool]_vars

(* ---------------------------- SolutionCache ---------------------------- *)

\* _make_key: urlparse(url).netloc or .path, then the proxy or 'direct'.
\* Without a scheme urlparse puts the whole string in .path.
MakeKey(url, proxy) ==
    [domain |-> IF url.scheme \/ url.path = "" THEN <<url.host>>
                ELSE <<url.host, url.path>>,
     chan |-> ChanOf(proxy)]

KeyIndex(c, k) ==
    IF \E i \in 1..Len(c) : c[i].key = k
      THEN CHOOSE i \in 1..Len(c) : c[i].key = k
      ELSE 0

RemoveAt(c, i) == SubSeq(c, 1, i - 1) \o SubSeq(c, i + 1, Len(c))

\* (mutant) an entry expires when its age reaches the TTL
IsExpired_AtTTL(sol, t, ttl) == t - sol.created >= ttl

\* CloudflareSolution.is_expired
IsExpired(sol, t, ttl) == t - sol.created > ttl

\* (mutant) get finds nothing
CacheGet_AlwaysMiss(c, st, k, t, ttl) ==
    [cache |-> c, stats |-> [st EXCEPT !.misses = @ + 1], sol |-> NoSol]

\* (mutant) a hit is not counted
CacheGet_HitUncounted(c, st, k, t, ttl) ==
    LET i == KeyIndex(c, k) IN
    IF i = 0 \/ IsExpired(c[i].sol, t, ttl)
      THEN [cache |-> IF i = 0 THEN c ELSE RemoveAt(c, i),
            stats |-> [st EXCEPT !.misses = @ + 1], sol |-> NoSol]
      ELSE [cache |-> Append(RemoveAt(c, i), c[i]), stats |-> st, sol |-> c[i].sol]

\* (mutant) a hit leaves the entry where it is
CacheGet_NoBump(c, st, k, t, ttl) ==
    LET i == KeyIndex(c, k) IN
    IF i = 0 \/ IsExpired(c[i].sol, t, ttl)
      THEN [cache |-> IF i = 0 THEN c ELSE RemoveAt(c, i),
            stats |-> [st EXCEPT !.misses = @ + 1], sol |-> NoSol]
      ELSE [cache |-> c, stats |-> [st EXCEPT !.hits = @ + 1], sol |-> c[i].sol]

\* SolutionCache.get at time t: the cache, the stats and the value returned
CacheGet(c, st, k, t, ttl) ==
    LET i == KeyIndex(c, k) IN
    IF i = 0
      THEN [cache |-> c, stats |-> [st EXCEPT !.misses = @ + 1], sol |-> NoSol]
      ELSE IF IsExpired(c[i].sol, t, ttl)
        THEN [cache |-> RemoveAt(c, i),
              stats |-> [st EXCEPT !.misses = @ + 1], sol |-> NoSol]
        ELSE [cache |-> Append(RemoveAt(c, i), c[i]),
              stats |-> [st EXCEPT !.hits = @ + 1], sol |-> c[i].sol]

\* set, lines 96-97: popitem(last=False) while the cache is full
RECURSIVE Evict(_, _)
Evict(c, max) == IF Len(c) >= max /\ Len(c) > 0 THEN Evict(Tail(c), max) ELSE c

\* (mutant) set leaves the key's old entry in place
CacheSet_KeepOld(c, k, sol, max) ==
    Append(Evict(c, max), [key |-> k, sol |-> sol])

\* (mutant) set makes room before it deletes the key's old entry
CacheSet_EvictFirst(c, k, sol, max) ==
    LET c0 == Evict(c, max)
        i == KeyIndex(c0, k)
    IN Append(IF i # 0 THEN RemoveAt(c0, i) ELSE c0, [key |-> k, sol |-> sol])

\* SolutionCache.set
CacheSet(c, k, sol, max) ==
    LET i == KeyIndex(c, k)
        c1 == IF i # 0 THEN RemoveAt(c, i) ELSE c
    IN Append(Evict(c1, max), [key |-> k, sol |-> sol])

\* SolutionCache.set(url, solution, proxy): the key, solution.url = url, then
\* the locked section
SetCall(c, url, proxy, sol, max) ==
    CacheSet(c, MakeKey(url, proxy), [sol EXCEPT !.url = url], max)

\* SolutionCache.invalidate: self._cache.pop(key, None)
Invalidate(c, k) == IF KeyIndex(c, k) # 0 THEN RemoveAt(c, KeyIndex(c, k)) ELSE c

(* A SolutionCache(max_size = CacheCap) called directly: get, set,          *)
(* invalidate and clear, each serialized by the cache's lock.               *)

\* targets with and without a scheme, on one host with two paths
CacheUrls == {[scheme |-> sc, host |-> "a", path |-> pa] :
                sc \in BOOLEAN, pa \in {"/x", "/y"}}
\* the (url, proxy) arguments of the calls
CacheArgs == (CacheUrls \X {"none"}) \cup
             {<<[scheme |-> TRUE, host |-> "a", path |-> "/x"], "p1">>}
\* the artifacts passed to set: CloudflareSolution(...) built now or at time 0,
\* its url still the default
SetArgs == {[cf |-> c, url |-> NoUrl, created |-> ts] :
              c \in 1..MaxTokens, ts \in {0, now}}

\* the keys in the order of their last use: k has just been used
Touch(used, k) == Append(SelectSeq(used, LAMBDA x : x # k), k)
\* k is no longer there
Forget(used, k) == SelectSeq(used, LAMBDA x : x # k)

\* the record of a call, the cache and the counters being those before it
Called(name, a, arg, ret, used) ==
    [n |-> op.n + 1, name |-> name, url |-> a[1], proxy |-> a[2], arg |-> arg,
     ret |-> ret, at |-> now, pre |-> cache, preStats |-> cacheStats,
     preUsed |-> op.used, used |-> used,
     prev |-> [name |-> op.name, url |-> op.url, proxy |-> op.proxy,
               arg |-> op.arg, at |-> op.at]]

CallGet(a) ==
    /\ op.n < MaxCacheOps
    /\ LET k == MakeKey(a[1], a[2])
           g == CacheGet(cache, cacheStats, k, now, CACHE_TTL)
       IN /\ cache' = g.cache
          /\ cacheStats' = g.stats
          /\ op' = Called("get", a, NoSol, g.sol,
                          IF g.sol # NoSol THEN Touch(op.used, k)
                                           ELSE Forget(op.used, k))
    /\ UNCHANGED <<poolVars, engVars, pc, page, wuVars, now, solveVars, srvVars, ck>>

CallSet(a) ==
    /\ op.n < MaxCacheOps
    /\ \E v \in SetArgs :
         /\ cache' = SetCall(cache, a[1], a[2], v, CacheCap)
         /\ op' = Called("set", a, [v EXCEPT !.url = a[1]], NoSol,
                         Touch(op.used, MakeKey(a[1], a[2])))
    /\ UNCHANGED <<poolVars, engVars, pc, page, wuVars, cacheStats, now,
                   solveVars, srvVars, ck>>

CallInvalidate(a) ==
    /\ op.n < MaxCacheOps
    /\ cache' = Invalidate(cache, MakeKey(a[1], a[2]))
    /\ op' = Called("invalidate", a, NoSol, NoSol,
                    Forget(op.used, MakeKey(a[1], a[2])))
    /\ UNCHANGED <<poolVars, engVars, pc, page, wuVars, cacheStats, now,
                   solveVars, srvVars, ck>>

CallClear ==
    /\ op.n < MaxCacheOps
    /\ cache' = <<>>
    /\ op' = Called("clear", <<NoUrl, "none">>, NoSol, NoSol, <<>>)
    /\ UNCHANGED <<poolVars, engVars, pc, page, wuVars, cacheStats, now,
                   solveVars, srvVars, ck>>

\* the wall clock
ClockTick ==
    /\ now < ClockStep * MaxClock
    /\ now' = now + ClockStep
    /\ UNCHANGED <<poolVars, engVars, pc, page, wuVars, cacheVars, solveVars, op, ck>>
    /\ UNCHANGED srvVars

\* a new cache, SolutionCache.__init__; nothing else runs
InitCache == InitPool

NextCache ==
    \/ ClockTick
    \/ \E a \in CacheArgs : CallGet(a)
    \/ \E a \in CacheArgs : CallSet(a)
    \/ \E a \in CacheArgs : CallInvalidate(a)
    \/ CallClear

SpecCache == InitCache /\ [][NextCache]_vars

(* ------------------------- CloudflareSolver.solve ----------------------- *)
(* A call of solve meets the other threads at the cache (get, set) and at   *)
(* the pool's lock.  What an attempt does to a page of its own (creation,   *)
(* navigation, the waiter's reads, the quit of the finally clause) no other *)
(* thread can observe, so an attempt without a pool is one action.          *)

Solvers == 1..NumSolvers

\* a call of solve on a solver built with proxy, use_cache and use_pool
\* the timeouts the callers give: CloudflareSolver(timeout = ...)
Timeouts == {TIMEOUT_MIN, TIMEOUT_DEFAULT}

SolveStart(t) ==
    /\ pc[t] \in {"idle", "s_returned", "s_raised"}
    /\ solves < MaxSolves
    /\ solves' = solves + 1
    /\ \E u \in Urls, p \in Proxies, sk \in BOOLEAN, n \in 0..MaxRetries,
          uc \in BOOLEAN, up \in BOOLEAN, to \in Timeouts :
         sv' = [sv EXCEPT ![t] = [NoCall EXCEPT !.url = u, !.proxy = p,
                    !.skip = sk, !.retries = n, !.useCache = uc, !.usePool = up,
                    !.timeout = to]]
    /\ pc' = [pc EXCEPT ![t] = "s_cache"]
    /\ UNCHANGED <<poolVars, engVars, page, wuVars, cacheVars, now, op, ck, poolExists>>
    /\ UNCHANGED srvVars

\* server.py lines 348-396, for the request r whose solve ended with the
\* locals call: the response, the counters and the slot; a cancelled request
\* gets nothing
\* (mutant) a failed solve is counted twice
Respond_FailedTwice(r, call) ==
    IF rq[r].st # "awaiting"
      THEN UNCHANGED <<rq, stats, sem, lastResp>>
      ELSE /\ sem' = sem + 1
           /\ rq' = [rq EXCEPT ![r] = [NoRequest EXCEPT !.st = "done",
                                                          !.skip = rq[r].skip]]
           /\ IF call.out = "returned"
                THEN /\ stats' = [stats EXCEPT !.success = @ + 1,
                                               !.processing = @ - 1]
                     /\ lastResp' = [req |-> r, success |-> TRUE,
                                     sol |-> call.result, fromCache |-> FALSE,
                                     skip |-> rq[r].skip,
                                     solveHit |-> call.fromCache]
                ELSE /\ stats' = [stats EXCEPT !.failed = @ + 2,
                                               !.processing = @ - 1]
                     /\ lastResp' = [req |-> r, success |-> FALSE,
                                     sol |-> NoSol, fromCache |-> FALSE,
                                     skip |-> rq[r].skip, solveHit |-> FALSE]

Respond(r, call) ==
    IF rq[r].st # "awaiting"
      THEN UNCHANGED <<rq, stats, sem, lastResp>>
      ELSE /\ sem' = sem + 1
           /\ rq' = [rq EXCEPT ![r] = [NoRequest EXCEPT !.st = "done",
                                                          !.skip = rq[r].skip]]
           /\ IF call.out = "returned"
                THEN /\ stats' = [stats EXCEPT !.success = @ + 1,
                                               !.processing = @ - 1]
                     /\ lastResp' = [req |-> r, success |-> TRUE,
                                     sol |-> call.result, fromCache |-> FALSE,
                                     skip |-> rq[r].skip,
                                     solveHit |-> call.fromCache]
                ELSE /\ stats' = [stats EXCEPT !.failed = @ + 1,
                                               !.processing = @ - 1]
                     /\ lastResp' = [req |-> r, success |-> FALSE,
                                     sol |-> NoSol, fromCache |-> FALSE,
                                     skip |-> rq[r].skip, solveHit |-> FALSE]

\* solve returns or raises on thread t with the locals call.  A direct caller
\* has the outcome.  On an executor thread (server.py line 343) the future of
\* the request is set, the await of the request is over, and the thread is
\* free again.
Return(t, call) ==
    IF wreq[t] = 0
      THEN /\ sv' = [sv EXCEPT ![t] = call]
           /\ pc' = [pc EXCEPT ![t] = IF call.out = "returned"
                                        THEN "s_returned" ELSE "s_raised"]
           /\ UNCHANGED srvVars
      ELSE /\ sv' = [sv EXCEPT ![t] = NoCall]
           /\ pc' = [pc EXCEPT ![t] = "idle"]
           /\ wreq' = [wreq EXCEPT ![t] = 0]
           /\ Respond(wreq[t], call)
           /\ UNCHANGED jobs

\* lines 443-448: the cache is asked first
SolveCacheGet(t) ==
    /\ pc[t] = "s_cache"
    /\ IF sv[t].useCache /\ ~sv[t].skip
         THEN LET g == CacheGet(cache, cacheStats,
                                MakeKey(sv[t].url, sv[t].proxy), now, CACHE_TTL)
              IN /\ cache' = g.cache
                 /\ cacheStats' = g.stats
                 /\ IF g.sol # NoSol
                      THEN Return(t, [sv[t] EXCEPT !.out = "returned",
                                        !.result = g.sol, !.fromCache = TRUE])
                      ELSE /\ pc' = [pc EXCEPT ![t] = "s_loop"]
                           /\ UNCHANGED <<sv, srvVars>>
         ELSE /\ pc' = [pc EXCEPT ![t] = "s_loop"]
              /\ UNCHANGED <<cacheVars, sv, srvVars>>
    /\ UNCHANGED <<poolVars, engVars, page, wuVars, now, op, ck, poolExists, solves>>

\* (mutant) one attempt too many
LoopContinues_OneMore(attempt, retries) == attempt <= retries + 1

\* line 453: for attempt in range(max_retries + 1)
LoopContinues(attempt, retries) == attempt <= retries

\* line 463: pool = get_browser_pool() if self.use_pool else None
UsesPool(t) == sv[t].usePool /\ poolExists

\* (mutant) the first error is kept, later ones are dropped
Caught_KeepFirst(call, e) ==
    [call EXCEPT !.lastError = IF @ = "none" THEN e ELSE @, !.fails = Append(@, e)]

\* the except clause, lines 507-509
Caught(call, e) == [call EXCEPT !.lastError = e, !.fails = Append(@, e)]

\* (mutant) the page is closed only when the attempt raised
FinallyQuits_OnErrorOnly(hs, pg, out) ==
    IF pg # NoPage /\ out # "returned" THEN QuitAll(hs, {pg}) ELSE hs

\* the finally clause without a pool, lines 512-521: if page: page.quit()
FinallyQuits(hs, pg, out) == IF pg # NoPage THEN QuitAll(hs, {pg}) ELSE hs

\* what the page shows during one poll tick: cookie, the cf_clearance cookie is
\* there when page.cookies() is read (line 538); late, it is there once the
\* title, the url and the html have been read; manual, the html carries a
\* manual-challenge marker; autoTitle, the title is one of challenge_titles;
\* readFails, one of the reads raises
Observations == [cookie : BOOLEAN, late : BOOLEAN, manual : BOOLEAN,
                 autoTitle : BOOLEAN, readFails : BOOLEAN]

\* lines 536-617: the cookie first, then the manual-challenge markers; a read
\* that raises (lines 619-621) and everything else leave the waiter polling.
\* The cookies are read before the title and the content, so a failure of
\* those reads comes after the cookie test.
\* (mutant) the manual-challenge markers are looked at before the cookie
Classify_ManualFirst(o) ==
    IF ~o.readFails /\ o.manual THEN "manual"
    ELSE IF o.cookie THEN "cleared"
    ELSE "polling"

\* (mutant) a read that raises ends the wait
Classify_FailEnds(o) ==
    IF o.cookie THEN "cleared"
    ELSE IF o.readFails \/ o.manual THEN "manual"
    ELSE "polling"

Classify(o) ==
    IF o.cookie THEN "cleared"
    ELSE IF o.readFails THEN "polling"
    ELSE IF o.manual THEN "manual"
    ELSE "polling"

\* line 532: while time.time() - start_time < wait_time
Polling(elapsed) == elapsed < WAIT_TIME

\* ticks that fit into the wait
Ticks == (WAIT_TIME + PollStep - 1) \div PollStep
ObsSeqs == [1..Ticks -> Observations]

\* _check_clearance(page), lines 527-627, on the session h whose page shows
\* os[i] at the i-th tick: the token, or None at a manual challenge or when
\* the wait is over; saw tells whether the cookie was seen, state is the
\* waiter's last state and elapsed the time it has polled
RECURSIVE CheckClearance(_, _, _, _)
CheckClearance(os, i, elapsed, h) ==
    IF ~Polling(elapsed) \/ i > Len(os)
      THEN [token |-> NoToken, elapsed |-> elapsed, saw |-> FALSE,
            state |-> "timed_out"]
      ELSE LET c == Classify(os[i]) IN
           IF c = "cleared"
             THEN [token |-> h, elapsed |-> elapsed, saw |-> TRUE,
                   state |-> "cleared"]
           ELSE IF c = "manual"
             THEN [token |-> NoToken, elapsed |-> elapsed, saw |-> FALSE,
                   state |-> "manual"]
           ELSE CheckClearance(os, i + 1, elapsed + PollStep, h)

(* _check_clearance(page) called on its own, tick by tick *)

\* the call: start_time is taken, nothing polled yet
CheckStart ==
    /\ ck.state = "none"
    /\ \E os \in ObsSeqs, h \in 1..MaxHandles :
         ck' = [NoCheck EXCEPT !.os = os, !.h = h, !.i = 1, !.state = "polling"]
    /\ UNCHANGED <<poolVars, engVars, pc, page, wuVars, cacheVars, now, op,
                   solveVars, srvVars>>

\* one pass of the loop, lines 532-623: the test of the wait, the reads and
\* the classification, then either a return or the sleep of line 623; when
\* the wait is over, lines 625-627
CheckTick ==
    /\ ck.state = "polling"
    /\ ck' = IF ~Polling(ck.elapsed) \/ ck.i > Len(ck.os)
               THEN [ck EXCEPT !.state = "timed_out"]
               ELSE LET c == Classify(ck.os[ck.i]) IN
                    IF c = "cleared"
                      THEN [ck EXCEPT !.state = "cleared", !.token = ck.h]
                    ELSE IF c = "manual"
                      THEN [ck EXCEPT !.state = "manual"]
                    ELSE [ck EXCEPT !.i = @ + 1, !.elapsed = @ + PollStep]
    /\ UNCHANGED <<poolVars, engVars, pc, page, wuVars, cacheVars, now, op,
                   solveVars, srvVars>>

InitWaiter == InitPool

NextWaiter == CheckStart \/ CheckTick

SpecWaiter == InitWaiter /\ [][NextWaiter]_vars

\* what _check_clearance can return on the session h, over all the page may show
Outcomes == [h \in 1..MaxHandles |->
               {CheckClearance(os, 1, 0, h) : os \in ObsSeqs}]

\* (mutant) solve goes on with whatever _check_clearance returned
Truthy_Always(v) == TRUE

\* line 487: if cf_clearance
Truthy(v) == v # NoToken

\* an attempt of t, whose locals are call, ends with the exception e (lines
\* 507-525): the error is kept, the page pg, if any, is quit, and the loop goes
\* on or, after the last attempt, solve raises with the last error; hs is
\* the engine's handles at that point
FailAttempt(t, call, e, hs, pg) ==
    LET c == [Caught(call, e) EXCEPT !.attempt = @ + 1] IN
    /\ handles' = FinallyQuits(hs, pg, "raised")
    /\ IF LoopContinues(c.attempt, c.retries)
         THEN /\ sv' = [sv EXCEPT ![t] = c]
              /\ UNCHANGED <<pc, srvVars>>
         ELSE Return(t, [c EXCEPT !.out = "raised", !.err = c.lastError])

\* lines 485-522, once _check_clearance has returned w on the page pg: with a
\* token the cookies and the user agent are read (either may raise), the
\* solution is built, stored in the cache and returned; without one
\* CloudflareError is raised; the finally clause quits the page
AfterCheck(t, call, w, hs, pg) ==
    IF Truthy(w.token)
      THEN \/ LET sol == [cf |-> w.token, url |-> call.url, created |-> now] IN
              /\ cache' = IF call.useCache
                            THEN CacheSet(cache, MakeKey(call.url, call.proxy),
                                          sol, CACHE_MAX_SIZE)
                            ELSE cache
              /\ handles' = FinallyQuits(hs, pg, "returned")
              /\ Return(t, [call EXCEPT !.cf = w.token, !.out = "returned",
                                        !.result = sol, !.elapsed = w.elapsed,
                                        !.waiter = w.state,
                                        !.wrote = call.useCache])
              /\ UNCHANGED engineFails
           \/ /\ CanFail
              /\ engineFails' = engineFails + 1
              /\ FailAttempt(t, [call EXCEPT !.elapsed = w.elapsed,
                                              !.waiter = w.state], "engine", hs, pg)
              /\ UNCHANGED cache
      ELSE /\ FailAttempt(t, [call EXCEPT !.elapsed = w.elapsed,
                                           !.waiter = w.state], "no_clearance",
                          hs, pg)
           /\ UNCHANGED <<cache, engineFails>>

\* one attempt of the loop, lines 453-522.  With a pool the page is asked of
\* pool.acquire.  Without one the page is created on the solver's own proxy
\* (_create_page), the target is opened (page.get, page.title),
\* _check_clearance waits on it, and the finally clause quits it; the
\* creation and the navigation may raise.
SolveLoop(t) ==
    /\ pc[t] = "s_loop"
    /\ IF UsesPool(t)
         THEN /\ sv' = [sv EXCEPT ![t].acq = @ + 1]
              /\ pc' = [pc EXCEPT ![t] = "acq_lock"]
              /\ UNCHANGED <<engVars, cache, srvVars>>
         ELSE LET call == [sv[t] EXCEPT !.acq = @ + 1]
                  made == Append(handles, NewHandle(ChanOf(sv[t].proxy), "solve"))
              IN \/ /\ CanFail
                    /\ engineFails' = engineFails + 1
                    /\ FailAttempt(t, call, "create", handles, NoPage)
                    /\ UNCHANGED cache
                 \/ /\ CanCreate /\ CanFail
                    /\ engineFails' = engineFails + 1
                    /\ FailAttempt(t, call, "navigate", made, NextId)
                    /\ UNCHANGED cache
                 \/ /\ CanCreate
                    /\ \E w \in Outcomes[NextId] :
                         AfterCheck(t, call, w,
                                    [made EXCEPT ![NextId].cleared = w.saw],
                                    NextId)
    /\ UNCHANGED <<poolVars, page, wuVars, cacheStats, now, op, ck, poolExists, solves>>

\* before the calls of solve: no pool (use_pool is off, or init_browser_pool
\* was not called or failed), or a pool that warmup has filled with k pages
InitSolve ==
    /\ creating = 0
    /\ shutdownFlag = FALSE
    /\ poolLock = NoOwner
    /\ engineFails = 0
    /\ pc = [p \in Procs |-> "idle"]
    /\ page = [p \in Procs |-> NoPage]
    /\ wcount = [p \in Threads |-> 0]
    /\ wi = [p \in Threads |-> 0]
    /\ wlog = [p \in Threads |-> NoWarmup]
    /\ cache = <<>>
    /\ cacheStats = [hits |-> 0, misses |-> 0]
    /\ now = 0
    /\ op = NoOp
    /\ ck = NoCheck
    /\ sv = [p \in Threads |-> NoCall]
    /\ solves = 0
    /\ rq = [r \in Requests |-> NoRequest]
    /\ sem = SEMAPHORE_LIMIT
    /\ stats = [total_requests |-> 0, success |-> 0, failed |-> 0,
                cache_hits |-> 0, queue_waiting |-> 0, processing |-> 0]
    /\ jobs = <<>>
    /\ wreq = [t \in Threads |-> 0]
    /\ lastResp = NoResp
    /\ poolExists \in BOOLEAN
    /\ \E k \in 0..POOL_SIZE :
         /\ poolExists \/ k = 0
         /\ handles = [h \in 1..k |-> NewHandle(Direct, "warmup")]
         /\ available = [h \in 1..k |-> h]
         /\ poolStats = [created |-> k, reused |-> 0, failed |-> 0, waiting |-> 0]

NextSolve ==
    \/ ClockTick
    \/ \E t \in Solvers : SolveStart(t)
    \/ \E t \in Solvers : SolveCacheGet(t)
    \/ \E t \in Solvers : SolveLoop(t)
    \/ \E t \in Solvers : AcquireEnter(t)

SpecSolve == InitSolve /\ [][NextSolve]_vars

(* --------------------------- server.py --------------------------------- *)

\* lines 295-303: the request arrives and is counted
ReqEnter(r) ==
    /\ rq[r].st = "new"
    /\ \A q \in Requests : q < r => rq[q].st # "new"
    /\ \E u \in Urls, p \in {"none"}, sk \in BOOLEAN :
         /\ sk => r <= MaxSkip
         /\ rq' = [rq EXCEPT ![r].st = "queued", ![r].url = u, ![r].proxy = p,
                          ![r].skip = sk]
    /\ stats' = [stats EXCEPT !.total_requests = @ + 1, !.queue_waiting = @ + 1]
    /\ UNCHANGED <<poolVars, engVars, pc, page, wuVars, cacheVars, now, op, ck,
                   solveVars, sem, jobs, wreq, lastResp>>

\* (mutant) the semaphore admits whoever asks
SlotFree_Always(v) == TRUE

\* asyncio.Semaphore: acquire returns when the value is positive
SlotFree(v) == v > 0

\* lines 307-346: the slot is taken, the cache is asked; on a hit the
\* response is returned and the slot released (line 396 is not on that path),
\* otherwise solver.solve is handed to the executor and the request awaits it
ReqAdmit(r) ==
    /\ rq[r].st = "queued"
    /\ SlotFree(sem)
    /\ LET g == CacheGet(cache, cacheStats, MakeKey(rq[r].url, rq[r].proxy),
                         now, CACHE_TTL)
           hit == ~rq[r].skip /\ g.sol # NoSol
       IN /\ IF rq[r].skip
               THEN UNCHANGED cacheVars
               ELSE cache' = g.cache /\ cacheStats' = g.stats
          /\ IF hit
               THEN /\ stats' = [stats EXCEPT !.queue_waiting = @ - 1,
                                   !.processing = @ + 1, !.success = @ + 1,
                                   !.cache_hits = @ + 1]
                    /\ rq' = [rq EXCEPT ![r] = [NoRequest EXCEPT !.st = "done"]]
                    /\ lastResp' = [req |-> r, success |-> TRUE, sol |-> g.sol,
                                    fromCache |-> TRUE, skip |-> rq[r].skip,
                                    solveHit |-> FALSE]
                    /\ UNCHANGED <<sem, jobs>>
               ELSE /\ stats' = [stats EXCEPT !.queue_waiting = @ - 1,
                                   !.processing = @ + 1]
                    /\ rq' = [rq EXCEPT ![r].st = "awaiting",
                                        ![r].asked = ~rq[r].skip]
                    /\ sem' = sem - 1
                    /\ jobs' = Append(jobs, r)
                    /\ UNCHANGED lastResp
    /\ UNCHANGED <<poolVars, engVars, pc, page, wuVars, now, op, ck, solveVars, wreq>>

\* line 345 on an executor thread: solver.solve(url, skip_cache=skip_cache) on
\* CloudflareSolver(proxy, timeout, use_cache=True, use_pool=True), the
\* request's timeout being the default of line 286, max_retries = 0
WorkerStart(t) ==
    /\ pc[t] = "idle"
    /\ wreq[t] = 0
    /\ \A u \in Threads : u < t => pc[u] # "idle"
    /\ jobs # <<>>
    /\ LET r == Head(jobs) IN
         /\ wreq' = [wreq EXCEPT ![t] = r]
         /\ sv' = [sv EXCEPT ![t] = [NoCall EXCEPT !.url = rq[r].url,
                      !.proxy = rq[r].proxy, !.skip = rq[r].skip,
                      !.useCache = TRUE, !.usePool = TRUE,
                      !.timeout = TIMEOUT_DEFAULT]]
    /\ jobs' = Tail(jobs)
    /\ pc' = [pc EXCEPT ![t] = "s_cache"]
    /\ UNCHANGED <<poolVars, engVars, page, wuVars, cacheVars, now, op, ck, poolExists,
                   solves, rq, sem, stats, lastResp>>

RemoveJob(q, r) == SelectSeq(q, LAMBDA x : x # r)

\* the caller goes away while the request waits for a slot (line 307) or for
\* the executor (line 343): CancelledError is raised there; lines 395-401.
\* A solve that has started goes on; one that has not is dropped.
ReqCancel(r) ==
    /\ rq[r].st \in {"queued", "awaiting"}
    /\ Cardinality({q \in Requests : rq[q].st = "cancelled"}) < MaxCancel
    /\ IF rq[r].st = "queued"
         THEN /\ stats' = [stats EXCEPT !.queue_waiting = @ - 1]
              /\ UNCHANGED <<sem, jobs>>
         ELSE /\ stats' = [stats EXCEPT !.processing = @ - 1,
                                        !.queue_waiting = @ - 1]
              /\ sem' = sem + 1
              /\ jobs' = RemoveJob(jobs, r)
    /\ rq' = [rq EXCEPT ![r] = [NoRequest EXCEPT !.st = "cancelled"]]
    /\ UNCHANGED <<poolVars, engVars, pc, page, wuVars, cacheVars, now, op, ck,
                   solveVars, wreq, lastResp>>

\* after lifespan's start (lines 45-62): the semaphore, the executor, an empty
\* cache, and the pool.  init_browser_pool sets _browser_pool before it calls
\* warmup, and warmup catches what a creation raises, so a pool that was
\* built holds the pages warmup could create; when BrowserPool(...) itself
\* raises, lifespan catches that (lines 58-61) and the server runs with no
\* pool, every solve creating its own page
InitServer == InitSolve

NextServer ==
    \/ \E r \in Requests : ReqEnter(r)
    \/ \E r \in Requests : ReqAdmit(r)
    \/ \E r \in Requests : ReqCancel(r)
    \/ \E t \in Threads : WorkerStart(t)
    \/ \E t \in Threads : SolveCacheGet(t)
    \/ \E t \in Threads : SolveLoop(t)
    \/ \E t \in Threads : AcquireEnter(t)

SpecServer == InitServer /\ [][NextServer]_vars

(* fairness: every thread that can take a step of the method it is in does *)

ThreadStep(t) ==
    \/ AcquireEnter(t) \/ Discard(t) \/ AsyncReplenish(t)
    \/ WarmupCreate(t) \/ WarmupAdd(t) \/ WarmupQuit(t)
    \/ ShutdownEnter(t) \/ ShutdownFinish(t)

ReplStep(r) ==
    \/ ReplStart(r) \/ ReplCreate(r) \/ ReplAdd(r) \/ ReplQuit(r) \/ ReplFail(r)

FairSpecPool ==
    /\ SpecPool
    /\ \A t \in Clients : WF_vars(ThreadStep(t))
    /\ \A r \in Repl : WF_vars(ReplStep(r))

\* an executor thread goes on with the call it runs; a thread is not cancelled
\* with the request.  The event loop resumes a request that waits for a slot
\* once one is free.
WorkerStep(t) ==
    \/ WorkerStart(t) \/ SolveCacheGet(t) \/ SolveLoop(t) \/ AcquireEnter(t)

FairSpecServer ==
    /\ SpecServer
    /\ \A t \in Threads : WF_vars(WorkerStep(t))
    /\ \A r \in Requests : WF_vars(ReqAdmit(r))

(* ------------------------------- claims -------------------------------- *)

InAcquire(t) == pc[t] \in {"acq_lock", "acq_ar"}

\* C1: no handle is handed out by acquire twice, and a handle that acquire
\* has handed out is no longer in `available`; no two callers of acquire
\* hold the same handle.
C1_HandedOutOnce ==
    /\ \A h \in 1..Len(handles) :
         /\ handles[h].outs <= 1
         /\ handles[h].outs = 1 => h \notin Range(available)
    /\ \A t, u \in Threads :
         (t # u /\ pc[t] = "acq_ar" /\ pc[u] = "acq_ar" /\ page[t] # NoPage)
           => page[t] # page[u]

\* a caller has taken the front handle while another handle is still idle and
\* another caller is entering acquire
C1_Witness ==
    \E t, u \in Threads :
      /\ t # u
      /\ pc[t] = "acq_ar" /\ page[t] # NoPage /\ handles[page[t]].outs = 1
      /\ available # <<>>
      /\ pc[u] = "acq_lock"

\* C2: every call of acquire eventually returns (it never blocks for ever).
C2_AcquireReturns ==
    \A t \in Clients : (pc[t] = "acq_lock") ~> ~InAcquire(t)

\* C3: in every reachable state len(available) + creating <= pool_size.
C3_PoolBound == Len(available) + creating <= POOL_SIZE

ShutdownCompleted == shutdownFlag /\ \A t \in Threads : pc[t] # "sd_quit"

\* C4: once shutdown() has completed, `available` holds no open handle, in
\* that state and in every later one.
C4_NoOpenIdleAfterShutdown ==
    ShutdownCompleted => \A h \in Range(available) : ~IsOpen(h)

PastAdmission == {r \in Requests : rq[r].st = "awaiting"}

\* C5: at most SEMAPHORE_LIMIT requests are past admission at any instant, the
\* semaphore's value is the number of free slots and is never negative, and
\* at most SEMAPHORE_LIMIT calls of solve (a cancelled request's included)
\* are acquiring a page or waiting for clearance.
C5_AtMostLimitAdmitted ==
    /\ Cardinality(PastAdmission) <= SEMAPHORE_LIMIT
    /\ sem >= 0
    /\ sem + Cardinality(PastAdmission) = SEMAPHORE_LIMIT
    /\ Cardinality({t \in Threads : wreq[t] # 0}) <= SEMAPHORE_LIMIT

\* more callers than slots: every slot is taken and a request is still queued
C5_Witness ==
    /\ Cardinality(PastAdmission) = SEMAPHORE_LIMIT
    /\ sem = 0
    /\ \E r \in Requests : rq[r].st = "queued"

\* the cache holds an entry under k that the TTL has not expired at time t
LiveEntry(c, k, t) ==
    /\ KeyIndex(c, k) # 0
    /\ t - c[KeyIndex(c, k)].sol.created <= CACHE_TTL

\* C11: a call of solve with caching on and skip_cache off that finds a live
\* entry under its key returns that entry's artifact from the cache and
\* acquires nothing; the entry a successful call has just stored is the
\* artifact it returned.
C11_SecondCallFromCache ==
    [][\A t \in Threads :
         /\ ( /\ pc[t] = "s_cache" /\ pc'[t] # "s_cache"
              /\ sv[t].useCache /\ ~sv[t].skip
              /\ LiveEntry(cache, MakeKey(sv[t].url, sv[t].proxy), now) )
            => /\ pc'[t] = "s_returned"
               /\ sv'[t].fromCache
               /\ sv'[t].result =
                    cache[KeyIndex(cache, MakeKey(sv[t].url, sv[t].proxy))].sol
               /\ sv'[t].acq = 0
               /\ handles' = handles
         /\ (pc[t] # "s_returned" /\ pc'[t] = "s_returned" /\ sv'[t].wrote)
            => /\ LiveEntry(cache', MakeKey(sv'[t].url, sv'[t].proxy), now)
               /\ cache'[KeyIndex(cache', MakeKey(sv'[t].url, sv'[t].proxy))].sol
                    = sv'[t].result
      ]_vars

\* a second call, made later but within the TTL, has returned from the cache
\* the artifact of the first call, whose page is the only one ever created
C11_Witness ==
    \E t \in Threads :
      /\ pc[t] = "s_returned" /\ sv[t].fromCache /\ sv[t].acq = 0
      /\ solves = 2 /\ now > 0
      /\ sv[t].result.created < now
      /\ Len(handles) = 1 /\ sv[t].result.cf = 1

\* C12: the cache query comes before the request for a slot: a request
\* without skip_cache that waits while every slot is taken has already asked
\* the cache, and found no live entry under its key.
C12_CacheBeforeAdmission ==
    \A r \in Requests :
      (rq[r].st = "queued" /\ ~rq[r].skip /\ sem = 0)
        => /\ rq[r].asked
           /\ ~LiveEntry(cache, MakeKey(rq[r].url, rq[r].proxy), now)

\* the last two calls were set(k, v) and, at the same instant, get(k)
SetThenGet ==
    /\ op.name = "get" /\ op.prev.name = "set"
    /\ MakeKey(op.url, op.proxy) = MakeKey(op.prev.url, op.prev.proxy)
    /\ op.at = op.prev.at

\* the get returned the artifact that was set and counted one hit and no miss
RoundTrip ==
    /\ op.ret = op.prev.arg
    /\ cacheStats.hits = op.preStats.hits + 1
    /\ cacheStats.misses = op.preStats.misses

\* C13 as stated: for every key and artifact, set(k, v) immediately followed
\* by get(k) returns v and counts one hit and no miss.
C13_RoundTripAny == SetThenGet => RoundTrip

\* C13, amended: for every key and every artifact whose age does not exceed
\* the TTL, set(k, v) immediately followed by get(k) returns v and counts one
\* hit and no miss.
C13_RoundTripLive ==
    (SetThenGet /\ op.at - op.prev.arg.created <= CACHE_TTL) => RoundTrip

\* an artifact built some time ago, but within the TTL, was set and got back
C13_Witness ==
    /\ SetThenGet
    /\ op.prev.arg.created < op.at
    /\ op.ret = op.prev.arg /\ op.ret # NoSol

\* where the key of the last call was in the cache before the call (0: nowhere)
PreIndex == KeyIndex(op.pre, MakeKey(op.url, op.proxy))

\* C14: get never returns an entry whose age exceeds the TTL: a get that finds
\* such an entry returns None, counts one miss and removes the entry; an entry
\* whose age is at most the TTL is returned.
C14_ExpiredNeverReturned ==
    op.name = "get" =>
      /\ op.ret # NoSol => op.at - op.ret.created <= CACHE_TTL
      /\ (PreIndex # 0 /\ op.at - op.pre[PreIndex].sol.created > CACHE_TTL)
           => /\ op.ret = NoSol
              /\ cacheStats.misses = op.preStats.misses + 1
              /\ cacheStats.hits = op.preStats.hits
              /\ KeyIndex(cache, MakeKey(op.url, op.proxy)) = 0
              /\ Len(cache) = Len(op.pre) - 1
      /\ (PreIndex # 0 /\ op.at - op.pre[PreIndex].sol.created <= CACHE_TTL)
           => op.ret = op.pre[PreIndex].sol

\* a get has found an entry older than the TTL beside another entry
C14_Witness ==
    /\ op.name = "get" /\ PreIndex # 0
    /\ op.at - op.pre[PreIndex].sol.created > CACHE_TTL
    /\ op.ret = NoSol
    /\ Len(op.pre) = 2 /\ Len(cache) = 1

\* C15: after any sequence of get, set, invalidate and clear the cache holds at
\* most one entry per key and at most max_size entries.
C15_OnePerKeyAtMostMax ==
    /\ \A i, j \in 1..Len(cache) : cache[i].key = cache[j].key => i = j
    /\ Len(cache) <= CacheCap

\* a set on a key that is already in a full cache
C15_Witness ==
    /\ op.name = "set" /\ PreIndex # 0
    /\ Len(op.pre) = CacheCap /\ Len(cache) = CacheCap

\* the keys in the cache before the last call, and after it
PreKeys == {op.pre[i].key : i \in 1..Len(op.pre)}
CacheKeys == {cache[i].key : i \in 1..Len(cache)}

\* the key in the cache, before the last call, whose last set or last hit of
\* get is the oldest
LeastRecent == SelectSeq(op.preUsed, LAMBDA x : x \in PreKeys)[1]

\* C16: a set of a new key into a full cache evicts exactly one entry, the
\* one least recently used (last set or last hit of get), and keeps the rest.
C16_EvictsLeastRecentlyUsed ==
    (op.name = "set" /\ PreIndex = 0 /\ Len(op.pre) = CacheCap)
      => /\ Len(cache) = CacheCap
         /\ CacheKeys = (PreKeys \ {LeastRecent}) \cup {MakeKey(op.url, op.proxy)}
         /\ \A i \in 1..Len(op.pre) :
              op.pre[i].key # LeastRecent => \E j \in 1..Len(cache) : cache[j] = op.pre[i]

\* a set of a third key into a full cache, right after a hit of get on the
\* entry that was stored first: the other entry is the one evicted
C16_Witness ==
    /\ op.name = "set" /\ PreIndex = 0 /\ Len(op.pre) = CacheCap
    /\ op.prev.name = "get" /\ op.preStats.hits = 1
    /\ op.pre[CacheCap].key = MakeKey(op.prev.url, op.prev.proxy)
    /\ op.pre[CacheCap].sol.created < op.pre[1].sol.created
    /\ KeyIndex(cache, op.pre[1].key) = 0
    /\ KeyIndex(cache, op.pre[CacheCap].key) # 0

\* C17: the key is the host and the channel, never the path: a set on one
\* target followed by a get on a target with the same host, another path and
\* the same channel (no proxy being the channel "direct") is a hit.
C17_KeyIsHostAndChannel ==
    ( /\ op.name = "get" /\ op.prev.name = "set"
      /\ op.url.host = op.prev.url.host
      /\ op.url.path # op.prev.url.path
      /\ ChanOf(op.proxy) = ChanOf(op.prev.proxy)
      /\ op.at - op.prev.arg.created <= CACHE_TTL )
      => /\ op.ret = op.prev.arg
         /\ cacheStats.hits = op.preStats.hits + 1

\* the requests waiting for a slot, and those holding one
Waiting == {r \in Requests : rq[r].st = "queued"}
Holding == {r \in Requests : rq[r].st = "awaiting"}

\* C18: once a request has been cancelled, while queued or while holding a
\* slot, its slot is free again, queue_waiting is the number of requests still
\* waiting for a slot, processing the number still holding one, and neither
\* counter is negative.
C18_CountersAfterCancel ==
    (\E r \in Requests : rq[r].st = "cancelled")
      => /\ sem = SEMAPHORE_LIMIT - Cardinality(Holding)
         /\ stats.queue_waiting = Cardinality(Waiting)
         /\ stats.processing = Cardinality(Holding)
         /\ stats.queue_waiting >= 0
         /\ stats.processing >= 0

\* C19: a handle taken for a request that has been cancelled is eventually
\* closed, exactly once: the worker goes on to the release/discard path
\* although its result is dropped.
C19_CancelledHandleClosed ==
    \A t \in Threads : \A h \in 1..MaxHandles :
      (wreq[t] # 0 /\ rq[wreq[t]].st = "cancelled" /\ page[t] = h)
        ~> (h <= Len(handles) /\ handles[h].quits = 1)

\* C20: the waiter declares timed-out only once the time it has polled has
\* reached the timeout its caller gave the solver; below it, with neither the
\* cookie nor a manual challenge seen, it goes on polling.
C20_TimedOutOnlyPastDeadline ==
    \A t \in Threads :
      sv[t].waiter = "timed_out" => sv[t].elapsed >= sv[t].timeout

\* the waiter has read the page at least once; what it saw at its last read
Polled == ck.state \in {"cleared", "manual"} \/ ck.i > 1
LastObs == IF ck.state \in {"cleared", "manual"} THEN ck.os[ck.i]
           ELSE ck.os[ck.i - 1]

\* C22: the waiter does not declare a manual challenge when the cookie has
\* appeared between the tick's read of the cookies and that decision: it reads
\* the cookies once more and returns the token.
C22_RecheckBeforeManual ==
    ck.state = "manual" => ~ck.os[ck.i].late

\* C23: an error of the navigation to the target does not end the attempt:
\* the waiter still runs on the page, so no attempt of solve ends with the
\* navigation's error.
C23_NavigationErrorTolerated ==
    \A t \in Threads : \A i \in 1..Len(sv[t].fails) : sv[t].fails[i] # "navigate"

\* p is about to make, or is inside, a call of the session engine:
\* _create_page and page.get (lines 197-198, 291-292), page.quit (lines 207,
\* 279, 299, 313)
InEngineCall(p) ==
    \/ pc[p] \in {"rep_create", "rep_quit", "wu_quit", "dc_quit"}
    \/ pc[p] = "wu_loop" /\ wi[p] < wcount[p]
    \/ pc[p] = "sd_quit" /\ available # <<>>

\* C24: a thread inside a call of the session engine holds no lock, in
\* acquire, replenishment, warmup, discard and shutdown.
C24_NoLockAcrossEngineCall ==
    \A p \in Procs : InEngineCall(p) => poolLock # p

\* C25: a tick classifies in a fixed order: with the cookie the waiter is
\* cleared and returns its value, whatever else the page shows; without it,
\* manual-challenge markers in the content end the wait with no token,
\* whatever the title; without either the waiter goes on polling, with an
\* auto-verifying title or with none.
C25_FixedPriority ==
    Polled =>
      /\ LastObs.cookie => ck.state = "cleared" /\ ck.token = ck.h
      /\ (~LastObs.cookie /\ ~LastObs.readFails /\ LastObs.manual)
           => ck.state = "manual" /\ ck.token = NoToken
      /\ (~LastObs.cookie /\ ~LastObs.manual)
           => ck.state \in {"polling", "timed_out"} /\ ck.token = NoToken

\* the waiter is cleared on a page that also carries manual-challenge
\* markers, after a tick with an auto-verifying title alone
C25_Witness ==
    /\ ck.state = "cleared" /\ ck.i = 2
    /\ ck.os[2].cookie /\ ck.os[2].manual /\ ~ck.os[2].readFails
    /\ ck.os[1].autoTitle /\ ~ck.os[1].manual /\ ~ck.os[1].cookie

\* C26: a read that raises during a tick is taken as no signal: the waiter
\* does not end there but sleeps and polls again, and a later tick, within
\* the wait, that sees the cookie ends it cleared.
C26_ReadFailureSwallowed ==
    /\ (Polled /\ LastObs.readFails /\ ~LastObs.cookie)
         => /\ ck.state \in {"polling", "timed_out"}
            /\ ck.i > 1 /\ ck.elapsed = (ck.i - 1) * PollStep
    /\ ( /\ ck.state \in {"cleared", "manual", "timed_out"} /\ ck.i > 1
         /\ ck.os[ck.i - 1].readFails /\ ~ck.os[ck.i - 1].cookie
         /\ ck.i <= Len(ck.os) /\ Polling(ck.elapsed) /\ ck.os[ck.i].cookie )
         => ck.state = "cleared" /\ ck.token = ck.h

\* the first tick's read raised, the second tick saw the cookie
C26_Witness ==
    /\ ck.state = "cleared" /\ ck.i = 2 /\ ck.token = ck.h
    /\ ck.os[1].readFails /\ ~ck.os[1].cookie

\* C27: the pool's handles are used once: a handle that acquire has handed
\* out does not come back into `available`, and is closed by discard after
\* its use.
C27_SingleUse ==
    \A h \in 1..MaxHandles :
      (h <= Len(handles) /\ handles[h].outs = 1)
        ~> (h <= Len(handles) /\ handles[h].quits = 1 /\ h \notin Range(available))

\* the artifact of the last response came out of the cache: the endpoint found
\* it (lines 316-331, the one path that answers from_cache = True) or the
\* request's solve did (lines 443-448)
ServedFromCache == lastResp.fromCache \/ lastResp.solveHit

\* C28: a successful response says from_cache exactly when its artifact came
\* out of the cache and nothing was acquired for the request, be it the
\* endpoint or solve that found the entry.
C28_FromCacheExact ==
    lastResp.success => (lastResp.fromCache <=> ServedFromCache)

\* C29: processing is the number of requests that hold a slot, so it stays
\* within 0..SEMAPHORE_LIMIT and is 0 when no request is in flight, whichever
\* way the requests left the endpoint.
C29_ProcessingIsHolding ==
    /\ stats.processing = Cardinality(Holding)
    /\ stats.processing \in 0..SEMAPHORE_LIMIT

\* every request that has arrived has been answered, and no solve runs
Quiet ==
    /\ \A r \in Requests : rq[r].st \in {"new", "done"}
    /\ \A t \in Threads : pc[t] = "idle"

\* C30: a request without skip_cache makes exactly one counted lookup in the
\* cache and a request with skip_cache none: once k requests without
\* skip_cache have been answered, hits + misses = k.
C30_OneLookupPerRequest ==
    Quiet => cacheStats.hits + cacheStats.misses =
               Cardinality({r \in Requests : rq[r].st = "done" /\ ~rq[r].skip})

\* C31: the endpoint's counters only grow, a request adds one to
\* total_requests and at most one to success or to failed, so
\* total_requests >= success + failed and cache_hits <= success always, and
\* total_requests = success + failed when no request is in flight and none
\* was cancelled.
C31_CountersConsistent ==
    /\ [](/\ stats.total_requests >= stats.success + stats.failed
          /\ stats.cache_hits <= stats.success
          /\ stats.total_requests =
               Cardinality({r \in Requests : rq[r].st # "new"})
          /\ Quiet => stats.total_requests = stats.success + stats.failed)
    /\ [][/\ stats'.total_requests >= stats.total_requests
          /\ stats'.success >= stats.success
          /\ stats'.failed >= stats.failed
          /\ stats'.cache_hits >= stats.cache_hits
          /\ (stats'.success - stats.success) + (stats'.failed - stats.failed) <= 1]_vars

\* three requests have been answered: one failed, one was solved and one was
\* served from the cache
C31_Witness ==
    /\ Quiet
    /\ stats.total_requests = 3 /\ stats.success = 2 /\ stats.failed = 1
    /\ stats.cache_hits = 1

\* the handle h is the local `page` of a warmup or of a replenishment thread
\* that has not yet added or closed it
InCreation(h) ==
    \E p \in Procs :
      page[p] = h /\ pc[p] \in {"rep_lock", "rep_quit", "rep_exc", "wu_lock", "wu_quit"}

\* C32: a handle created by warmup or by a replenishment thread ends in
\* `available` or closed: none is left open outside the pool, also when the
\* navigation to the neutral page fails, when the pool is full and after a
\* shutdown.
C32_CreatedHandleKeptOrClosed ==
    \A h \in 1..Len(handles) :
      (handles[h].by \in {"warmup", "replenish"} /\ handles[h].outs = 0
         /\ ~InCreation(h))
        => (h \in Range(available) \/ ~IsOpen(h))

\* the replenishment threads that were started and have not yet come to the
\* end of their creation (the decrement of _creating, or their return)
InFlight == {r \in Repl : pc[r] \in {"rep_start", "rep_create", "rep_lock", "rep_exc"}}

\* C33: `creating` is the number of replenishment threads started and not
\* yet finished: never negative, and 0 once every such thread has ended,
\* whether its creation failed or the pool was shut down before or after its
\* start.
C33_CreatingIsInFlight ==
    /\ creating = Cardinality(InFlight)
    /\ creating >= 0

\* the callers inside acquire that found the pool empty and were counted as
\* waiting (line 239)
WaitingCallers == {t \in Threads : pc[t] = "acq_ar" /\ page[t] = NoPage}

C35_ReplaceKeepsOthers ==
    (op.name = "set" /\ PreIndex # 0)
      => /\ Len(cache) = Len(op.pre)
         /\ CacheKeys = PreKeys
         /\ cache[Len(cache)] = [key |-> MakeKey(op.url, op.proxy), sol |-> op.arg]
         /\ SubSeq(cache, 1, Len(cache) - 1) = RemoveAt(op.pre, PreIndex)

\* a set on the least recently used key of a full cache, with another
\* artifact than the one stored
C35_Witness ==
    /\ op.name = "set" /\ PreIndex = 1 /\ Len(op.pre) = CacheCap
    /\ op.pre[1].sol # op.arg
    /\ cache[CacheCap].sol = op.arg
    /\ cache[1] = op.pre[2]

Min(a, b) == IF a <= b THEN a ELSE b

\* C21: a call warmup(n) creates at most n handles and adds at most
\* min(n, pool_size - len(available)) of them, for every n >= 0, n = 0
\* included.
C21_WarmupAtMostN ==
    \A t \in Threads :
      /\ wlog[t].made <= wlog[t].n
      /\ wlog[t].added <= Min(wlog[t].n, POOL_SIZE - wlog[t].before)

InSolve(t) == pc[t] \in {"s_cache", "s_loop", "acq_lock", "acq_ar"}
Held(h) == \E t \in Threads : page[t] = h

\* C6: every handle solve obtains in an attempt is closed exactly once by the
\* end of that attempt: a handle that solve created, or that acquire popped
\* for it, is open while the attempt holds it and has been quit once, never
\* twice, as soon as it is let go.
C6_ClosedExactlyOnce ==
    \A h \in 1..Len(handles) :
      /\ handles[h].quits <= 1
      /\ (handles[h].by = "solve" \/ handles[h].outs > 0) =>
           IF Held(h) THEN handles[h].quits = 0 ELSE handles[h].quits = 1

\* solve has raised after two attempts that failed in different ways, and
\* the two handles it created are closed
C6_Witness ==
    \E t \in Threads :
      /\ pc[t] = "s_raised"
      /\ Len(sv[t].fails) = 2 /\ sv[t].fails[1] # sv[t].fails[2]
      /\ Cardinality({h \in 1..Len(handles) :
                        handles[h].by = "solve" /\ handles[h].quits = 1}) = 2

\* C7: a call of solve with max_retries = N acquires a resource at most N + 1
\* times.
C7_AtMostNPlusOne ==
    \A t \in Threads : sv[t].acq <= sv[t].retries + 1

\* a call with one retry has succeeded on its second acquisition
C7_Witness ==
    \E t \in Threads :
      /\ pc[t] = "s_returned" /\ ~sv[t].fromCache
      /\ sv[t].retries = 1 /\ sv[t].acq = 2

\* C8: when solve raises, every one of its N + 1 attempts has failed: it has
\* made exactly N + 1 acquisitions, the error carries the failure of the last
\* attempt, no artifact is returned and the call wrote no cache entry.
C8_ExhaustedRaises ==
    \A t \in Threads :
      pc[t] = "s_raised" =>
        /\ sv[t].acq = sv[t].retries + 1
        /\ Len(sv[t].fails) = sv[t].retries + 1
        /\ sv[t].err = sv[t].fails[Len(sv[t].fails)]
        /\ sv[t].result = NoSol
        /\ ~sv[t].wrote

\* a call with caching on and one retry has raised, the last failure being
\* the waiter's
C8_Witness ==
    \E t \in Threads :
      /\ pc[t] = "s_raised"
      /\ sv[t].useCache /\ sv[t].retries = 1
      /\ sv[t].fails = <<"engine", "no_clearance">>

FromCleared(sol) ==
    /\ sol.cf \in 1..Len(handles)
    /\ handles[sol.cf].cleared

\* C9: an artifact is returned, or is in the cache, only if a waiter saw the
\* success cookie: the artifact returned by a call is the one its own waiter
\* reported or one taken from the cache, and every cached artifact carries
\* the token of a session on which a waiter saw the cookie.
C9_ArtifactOnlyWhenCleared ==
    /\ \A t \in Threads :
         sv[t].out = "returned" =>
           /\ FromCleared(sv[t].result)
           /\ sv[t].fromCache \/ sv[t].result.cf = sv[t].cf
         
    /\ \A i \in 1..Len(cache) : FromCleared(cache[i].sol)
    /\ \A t \in Threads :
         sv[t].out # "returned" => sv[t].result = NoSol

\* a call has returned a cached artifact that an earlier call stored after
\* its waiter saw the cookie
C9_Witness ==
    \E t \in Threads :
      /\ pc[t] = "s_returned" /\ sv[t].fromCache
      /\ FromCleared(sv[t].result)
      /\ \E h \in 1..Len(handles) : ~handles[h].cleared /\ handles[h].by = "solve"

\* C10: the handle a call of solve holds was created on the call's channel,
\* and a call with a proxy holds no handle that came from the pool.
C10_HandleOnOwnChannel ==
    \A t \in Threads :
      (InSolve(t) /\ page[t] # NoPage) =>
        /\ handles[page[t]].chan = ChanOf(sv[t].proxy)
        /\ sv[t].proxy # "none" => handles[page[t]].by = "solve"

=============================================================================
